---- MODULE Spec2Model ----
(***************************************************************************)
(* The forwarder Worker (package defaultforwarder): the scheduling loop    *)
(* started by Start, the execution of one transaction by callProcess and   *)
(* process, Stop with its optional purge of HighPrio, and                  *)
(* ScheduleConnectionReset.  Goroutines are modelled as threads with a     *)
(* program counter; an unbuffered channel operation is one rendezvous      *)
(* step of the sender and the receiver.                                    *)
(***************************************************************************)
EXTENDS Integers, Sequences, FiniteSets, TLC

\* ------------------------------------------------------------------ bounds
\* Number of transactions the producer side can create.
MaxTx == 2
\* Capacity of the HighPrio and of the LowPrio channel.
ChanCap == 2
\* Capacity of the requeue channel.
RequeueCap == 1
\* Number of ScheduleConnectionReset calls made by the environment.
MaxResetCalls == 2
\* Consecutive failures after which the breaker opens for a target.
Threshold == 2
\* Counters of the bookkeeping stop counting at this value.
MaxCount == 2
MaxPort == 2
MaxCalls == 3
MaxGets == 3
MaxKeys == 3
MaxConns == 2
MaxFinds == 2
MaxCloses == 2

\* ------------------------------------------------------------ vocabulary
Loop == "loop"
StopCallers == {"s1", "s2"}
Threads == {Loop} \cup StopCallers
Targets == {"a"}
Ids == 1 .. MaxTx
NoTx == [id |-> 0, target |-> "none", blocks |-> FALSE]
Min(a, b) == IF a < b THEN a ELSE b

VARIABLES
    HighPrio,            \* Worker.HighPrio: the transactions waiting in the channel
    LowPrio,             \* Worker.LowPrio
    RequeueChan,         \* Worker.RequeueChan
    resetConnectionChan, \* number of tokens in the 1-buffered channel
    Client,              \* Worker.Client: generation of the http client
    stopped,             \* Worker.stopped has been closed
    blockedList,         \* the circuit breaker, per target
    pc,                  \* where the loop goroutine and each Stop caller are
    purgeHighPrio,       \* the argument of each Stop call
    cur,                 \* the transaction t of the running callProcess
    ctx,                 \* the context of the running callProcess
    site,                \* the place callProcess was called from
    gpc,                 \* where the goroutine spawned by callProcess is
    usedClient,          \* the Client handed to t.Process
    nextId,              \* next transaction the producer creates
    resetCalls,          \* ScheduleConnectionReset calls made so far
    saturated,           \* the producer refills both inputs at once
    trace,               \* what the last callProcess of each thread did
    taken,               \* times each transaction was received from an input
    attempts,            \* times each transaction was handed to process
    prio,                \* the input each transaction was sent on
    takenBy,             \* who received it: the loop or a purge
    callsSincePoll,      \* ScheduleConnectionReset calls since the last poll
    points,              \* the argument of the thread's last OnPointSuccessfullySent
    usm,                 \* one USMConnectionData and the calls made on it
    cs,                  \* a cachingStore and the goroutines calling its get
    idx                  \* a USMConnectionIndex, from GroupByConnection to Close

vars == << HighPrio, LowPrio, RequeueChan, resetConnectionChan, Client, stopped,
           blockedList, pc, purgeHighPrio, cur, site, ctx, gpc, usedClient,
           nextId, resetCalls, saturated, trace, taken, attempts, prio, takenBy,
           callsSincePoll, points, usm, cs, idx >>

chans == << HighPrio, LowPrio >>
ghostTx == << taken, attempts, prio, takenBy >>
env == << nextId, resetCalls, saturated >>
call == << cur, site, ctx, gpc, usedClient, trace, points >>
\* The Worker, its callers and the bookkeeping of its transactions.
worker == << chans, RequeueChan, resetConnectionChan, Client, stopped, blockedList, pc,
            purgeHighPrio, call, env, ghostTx, callsSincePoll >>
\* What the Worker never touches.
aux == << usm, cs, idx >>

\* A port of a connection: a uint16, 0 included.
Ports == 0 .. MaxPort
\* The USMConnectionData that GroupByConnection builds: sport and dport are
\* zero.  calls, first, arg and ret record the IsPIDCollision calls made on it:
\* how many, the ports of the first caller, and the last caller's ports and
\* return value.
NewUSMConnectionData ==
    [sport |-> 0, dport |-> 0, calls |-> 0, first |-> << 0, 0 >>, arg |-> << 0, 0 >>,
     ret |-> FALSE]

\* The blockedEndpoints handed to NewWorker is shared with the other workers
\* of the forwarder: a target is new to it, or its breaker has been opened by
\* their failures.
NewBlockedEndpoints ==
    { [failures |-> 0, state |-> "closed"], [failures |-> Threshold, state |-> "open"] }

\* The keys K of the map given to GroupByConnection, its values V, and the
\* connection keys that keyGen maps the keys to.
DataKeys == 1 .. MaxKeys
DataValues == {"u", "v"}
ConnectionKeys == 1 .. MaxConns
\* A connection key that is not in the map of the index.
NoData == [present |-> FALSE, Data |-> << >>, size |-> 0, claimed |-> FALSE]
\* No index yet.  data and keyGen are the arguments of GroupByConnection, todo
\* the keys a pass has still to visit, byConnection the map of the index, once
\* its sync.Once; reports lists the counts reported, found the connection keys
\* of the entries Find returned before the first Close.
NoIndex ==
    [phase |-> "none", data |-> << >>, keyGen |-> << >>, todo |-> {},
     byConnection |-> [c \in ConnectionKeys |-> NoData],
     once |-> FALSE, reports |-> << >>, found |-> {}, finds |-> 0, closes |-> 0]

\* The goroutines that call cachingStore.get, the keys they ask for and the
\* values the underlying store may answer with; the empty string is one.
Getters == {"g1", "g2"}
StoreKeys == {"k1", "k2"}
Values == {"", "a", "b"}
\* newCachingStore: an unlocked mutex and an empty cache.  pc, key and ret are
\* the position, the argument and the result of each caller's get; asked and
\* ok count the calls of the underlying store's get and those that succeeded,
\* first is the value of the first that succeeded, calls counts the gets.
newCachingStore ==
    [l |-> "none",
     cache |-> [k \in StoreKeys |-> [found |-> FALSE, value |-> ""]],
     pc |-> [g \in Getters |-> "idle"],
     key |-> [g \in Getters |-> "k1"],
     ret |-> [g \in Getters |-> [value |-> "", err |-> FALSE]],
     asked |-> [k \in StoreKeys |-> 0],
     ok |-> [k \in StoreKeys |-> 0],
     first |-> [k \in StoreKeys |-> ""],
     calls |-> 0]

\* NewWorker: empty reset channel, unbuffered stopChan and stopped, a new client.
Init ==
    /\ HighPrio = << >>
    /\ LowPrio = << >>
    /\ RequeueChan = << >>
    /\ resetConnectionChan = 0
    /\ Client = 0
    /\ stopped = FALSE
    /\ blockedList \in [Targets -> NewBlockedEndpoints]
    /\ pc = [th \in Threads |-> IF th = Loop THEN "init" ELSE "idle"]
    /\ purgeHighPrio = [c \in StopCallers |-> FALSE]
    /\ cur = [th \in Threads |-> NoTx]
    /\ site = [th \in Threads |-> "none"]
    /\ ctx = [th \in Threads |-> "none"]
    /\ gpc = [th \in Threads |-> "none"]
    /\ usedClient = [th \in Threads |-> 0]
    /\ nextId = 1
    /\ resetCalls = 0
    /\ saturated = FALSE
    /\ trace = [th \in Threads |-> << >>]
    /\ taken = [i \in Ids |-> 0]
    /\ attempts = [i \in Ids |-> 0]
    /\ prio = [i \in Ids |-> "none"]
    /\ takenBy = [i \in Ids |-> "none"]
    /\ callsSincePoll = 0
    /\ points = [th \in Threads |-> 0]
    /\ usm = NewUSMConnectionData
    /\ cs = newCachingStore
    /\ idx = NoIndex

\* ------------------------------------------------------------ the breaker
\* blockedEndpoints.isBlock: the breaker is open and its cooldown has not elapsed.
isBlock(g) == blockedList[g].state = "open"

\* blockedEndpoints.close: one more failure; open once the threshold is reached.
close(g) ==
    LET n == Min(blockedList[g].failures + 1, Threshold)
    IN  [blockedList EXCEPT ![g] =
            [failures |-> n,
             state |-> IF n >= Threshold THEN "open" ELSE @.state]]

\* blockedEndpoints.recover: failure count back to zero, breaker closed.
recover(g) == [blockedList EXCEPT ![g] = [failures |-> 0, state |-> "closed"]]

\* The cooldown of an open breaker elapses: the next transaction is a probe.
CooldownElapses(g) ==
    /\ blockedList[g].state = "open"
    /\ blockedList' = [blockedList EXCEPT ![g].state = "halfOpen"]
    /\ UNCHANGED << aux, HighPrio, LowPrio, RequeueChan, resetConnectionChan, Client,
                    stopped, pc, purgeHighPrio, cur, site, ctx, gpc, usedClient, points, nextId,
                    resetCalls, saturated, trace, taken, attempts, prio, takenBy,
                    callsSincePoll >>

\* ------------------------------------------------------- the environment
\* The forwarder sends a new transaction on HighPrio.
ProduceHigh(g, b) ==
    /\ nextId <= MaxTx
    /\ ~saturated
    /\ Len(HighPrio) < ChanCap
    /\ HighPrio' = Append(HighPrio, [id |-> nextId, target |-> g, blocks |-> b])
    /\ prio' = [prio EXCEPT ![nextId] = "high"]
    /\ nextId' = nextId + 1
    /\ UNCHANGED << aux, LowPrio, RequeueChan, resetConnectionChan, Client, stopped,
                    blockedList, pc, purgeHighPrio, cur, site, ctx, gpc, usedClient, points,
                    resetCalls, saturated, trace, taken, attempts, takenBy,
                    callsSincePoll >>

\* The forwarder sends a new transaction on LowPrio.
ProduceLow(g, b) ==
    /\ nextId <= MaxTx
    /\ ~saturated
    /\ Len(LowPrio) < ChanCap
    /\ LowPrio' = Append(LowPrio, [id |-> nextId, target |-> g, blocks |-> b])
    /\ prio' = [prio EXCEPT ![nextId] = "low"]
    /\ nextId' = nextId + 1
    /\ UNCHANGED << aux, HighPrio, RequeueChan, resetConnectionChan, Client, stopped,
                    blockedList, pc, purgeHighPrio, cur, site, ctx, gpc, usedClient, points,
                    resetCalls, saturated, trace, taken, attempts, takenBy,
                    callsSincePoll >>

\* The forwarder's retry goroutine receives one transaction from RequeueChan.
RequeueConsume ==
    /\ RequeueChan # << >>
    /\ RequeueChan' = Tail(RequeueChan)
    /\ UNCHANGED << aux, HighPrio, LowPrio, resetConnectionChan, Client, stopped,
                    blockedList, pc, purgeHighPrio, cur, site, ctx, gpc, usedClient, points,
                    nextId, resetCalls, saturated, trace, taken, attempts, prio,
                    takenBy, callsSincePoll >>

\* From now on both inputs always have an item ready: whatever is received is
\* replaced at once by the producer.
Saturate ==
    /\ ~saturated
    /\ HighPrio # << >>
    /\ LowPrio # << >>
    /\ saturated' = TRUE
    /\ UNCHANGED << aux, HighPrio, LowPrio, RequeueChan, resetConnectionChan, Client,
                    stopped, blockedList, pc, purgeHighPrio, cur, site, ctx, gpc,
                    usedClient, points, nextId, resetCalls, trace, taken, attempts, prio,
                    takenBy, callsSincePoll >>

\* What a channel holds after its head was received.
Rest(ch) == IF saturated THEN ch ELSE Tail(ch)
Bump(f, i) == [f EXCEPT ![i] = Min(@ + 1, MaxCount)]

\* ------------------------------------------------------------ the Worker
StopPending == \E c \in StopCallers : pc[c] = "send"
Log(th, e) == [trace EXCEPT ![th] = Append(@, e)]

\* A loop whose first select does not `continue`: after a high-priority
\* transaction it goes on to the blocking select.
AfterCallFallsThrough(th, err) ==
    IF th = Loop
    THEN (IF err THEN "exited" ELSE IF site[th] = "high1" THEN "select2" ELSE "select1")
    ELSE "purgeSelect"

\* A loop that also returns when the execution failed or was not attempted.
AfterCallExitsOnFailure(th, err) ==
    IF th = Loop
    THEN (IF err \/ ~(\E i \in 1 .. Len(trace[th]) : trace[th][i] = "ok")
          THEN "exited" ELSE "select1")
    ELSE "purgeSelect"

\* A loop that goes on after an execution that the stop signal cancelled.
AfterCallIgnoresError(th, err) ==
    IF th = Loop THEN "select1" ELSE "purgeSelect"

\* Where a thread goes when its callProcess returns: the loop goes back to the
\* top of the for (continue, or the end of the body) on nil and returns on an
\* error; the purge ignores the result.
AfterCall(th, err) ==
    IF th = Loop THEN (IF err THEN "exited" ELSE "select1") ELSE "purgeSelect"

\* `case t := <-ch` followed by the call of callProcess(t).
Receive(th, t, from, who) ==
    /\ pc' = [pc EXCEPT ![th] = "cpPoll"]
    /\ cur' = [cur EXCEPT ![th] = t]
    /\ site' = [site EXCEPT ![th] = from]
    /\ taken' = Bump(taken, t.id)
    /\ takenBy' = [takenBy EXCEPT ![t.id] = who]

\* Start: the loop goroutine is spawned.
Start ==
    /\ pc[Loop] = "init"
    /\ pc' = [pc EXCEPT ![Loop] = "select1"]
    /\ UNCHANGED << aux, chans, RequeueChan, resetConnectionChan, Client, stopped,
                    blockedList, purgeHighPrio, call, env, ghostTx, callsSincePoll >>

\* First select, case t := <-w.HighPrio.
LoopSelect1High ==
    /\ pc[Loop] = "select1"
    /\ HighPrio # << >>
    /\ Receive(Loop, Head(HighPrio), "high1", "loop")
    /\ HighPrio' = Rest(HighPrio)
    /\ UNCHANGED << aux, LowPrio, RequeueChan, resetConnectionChan, Client, stopped,
                    blockedList, purgeHighPrio, ctx, gpc, usedClient, points, trace, env,
                    attempts, prio, callsSincePoll >>

\* First select, case <-w.stopChan: return, and the deferred close(w.stopped).
LoopSelect1Stop(c) ==
    /\ pc[Loop] = "select1"
    /\ pc[c] = "send"
    /\ pc' = [pc EXCEPT ![Loop] = "exited", ![c] = "waitStopped"]
    /\ stopped' = TRUE
    /\ UNCHANGED << aux, chans, RequeueChan, resetConnectionChan, Client, blockedList,
                    purgeHighPrio, call, env, ghostTx, callsSincePoll >>

\* A first select whose default may be chosen while HighPrio has an item.
LoopSelect1DefaultAnyTime ==
    /\ pc[Loop] = "select1"
    /\ ~StopPending
    /\ pc' = [pc EXCEPT ![Loop] = "select2"]
    /\ UNCHANGED << aux, chans, RequeueChan, resetConnectionChan, Client, stopped,
                    blockedList, purgeHighPrio, call, env, ghostTx, callsSincePoll >>

\* A first select whose default may be chosen while a Stop caller is sending.
LoopSelect1DefaultIgnoresStop ==
    /\ pc[Loop] = "select1"
    /\ HighPrio = << >>
    /\ pc' = [pc EXCEPT ![Loop] = "select2"]
    /\ UNCHANGED << aux, chans, RequeueChan, resetConnectionChan, Client, stopped,
                    blockedList, purgeHighPrio, call, env, ghostTx, callsSincePoll >>

\* First select, default: nothing on HighPrio and nobody sending on stopChan.
LoopSelect1Default ==
    /\ pc[Loop] = "select1"
    /\ HighPrio = << >>
    /\ ~StopPending
    /\ pc' = [pc EXCEPT ![Loop] = "select2"]
    /\ UNCHANGED << aux, chans, RequeueChan, resetConnectionChan, Client, stopped,
                    blockedList, purgeHighPrio, call, env, ghostTx, callsSincePoll >>

\* Second select, case t := <-w.HighPrio.
LoopSelect2High ==
    /\ pc[Loop] = "select2"
    /\ HighPrio # << >>
    /\ Receive(Loop, Head(HighPrio), "high2", "loop")
    /\ HighPrio' = Rest(HighPrio)
    /\ UNCHANGED << aux, LowPrio, RequeueChan, resetConnectionChan, Client, stopped,
                    blockedList, purgeHighPrio, ctx, gpc, usedClient, points, trace, env,
                    attempts, prio, callsSincePoll >>

\* Second select, case t := <-w.LowPrio.
LoopSelect2Low ==
    /\ pc[Loop] = "select2"
    /\ LowPrio # << >>
    /\ Receive(Loop, Head(LowPrio), "low2", "loop")
    /\ LowPrio' = Rest(LowPrio)
    /\ UNCHANGED << aux, HighPrio, RequeueChan, resetConnectionChan, Client, stopped,
                    blockedList, purgeHighPrio, ctx, gpc, usedClient, points, trace, env,
                    attempts, prio, callsSincePoll >>

\* A loop that returns on the stop signal without closing w.stopped.
LoopSelect2StopNoClose(c) ==
    /\ pc[Loop] = "select2"
    /\ pc[c] = "send"
    /\ pc' = [pc EXCEPT ![Loop] = "exited", ![c] = "waitStopped"]
    /\ UNCHANGED << aux, chans, RequeueChan, resetConnectionChan, Client, stopped,
                    blockedList, purgeHighPrio, call, env, ghostTx, callsSincePoll >>

\* Second select, case <-w.stopChan.
LoopSelect2Stop(c) ==
    /\ pc[Loop] = "select2"
    /\ pc[c] = "send"
    /\ pc' = [pc EXCEPT ![Loop] = "exited", ![c] = "waitStopped"]
    /\ stopped' = TRUE
    /\ UNCHANGED << aux, chans, RequeueChan, resetConnectionChan, Client, blockedList,
                    purgeHighPrio, call, env, ghostTx, callsSincePoll >>

\* resetConnections: the client is replaced by a new one.
resetConnections == Client + 1

\* callProcess, the poll of resetConnectionChan.
CpPoll(th) ==
    /\ pc[th] = "cpPoll"
    /\ IF resetConnectionChan > 0
       THEN /\ resetConnectionChan' = resetConnectionChan - 1
            /\ Client' = resetConnections
            /\ trace' = [trace EXCEPT ![th] = << "reset" >>]
       ELSE /\ UNCHANGED << resetConnectionChan, Client >>
            /\ trace' = [trace EXCEPT ![th] = << >>]
    /\ callsSincePoll' = 0
    /\ points' = [points EXCEPT ![th] = 0]
    /\ pc' = [pc EXCEPT ![th] = "cpSpawn"]
    /\ UNCHANGED << aux, chans, RequeueChan, stopped, blockedList, purgeHighPrio, cur,
                    site, ctx, gpc, usedClient, env, ghostTx >>

\* callProcess: the context, the done channel and `go func() { w.process(ctx, t) ... }`.
CpSpawn(th) ==
    /\ pc[th] = "cpSpawn"
    /\ ctx' = [ctx EXCEPT ![th] = "live"]
    /\ gpc' = [gpc EXCEPT ![th] = "isBlock"]
    /\ attempts' = Bump(attempts, cur[th].id)
    /\ pc' = [pc EXCEPT ![th] = "cpSelect"]
    /\ UNCHANGED << aux, chans, RequeueChan, resetConnectionChan, Client, stopped,
                    blockedList, purgeHighPrio, cur, site, usedClient, points, trace, env,
                    taken, prio, takenBy, callsSincePoll >>

\* callProcess, case <-done, then cancel() and return nil.
CpDone(th) ==
    /\ pc[th] = "cpSelect"
    /\ gpc[th] = "sendDone"
    /\ gpc' = [gpc EXCEPT ![th] = "none"]
    /\ ctx' = [ctx EXCEPT ![th] = "cancelled"]
    /\ trace' = Log(th, "nil")
    /\ pc' = [pc EXCEPT ![th] = AfterCall(th, FALSE)]
    /\ UNCHANGED << aux, chans, RequeueChan, resetConnectionChan, Client, stopped,
                    blockedList, purgeHighPrio, cur, site, usedClient, points, env, ghostTx,
                    callsSincePoll >>

\* callProcess with a stop branch that returns right after cancel().
CpStopNoWait(th, c) ==
    /\ pc[th] = "cpSelect"
    /\ pc[c] = "send"
    /\ ctx' = [ctx EXCEPT ![th] = "cancelled"]
    /\ trace' = Log(th, "cancel")
    /\ pc' = [pc EXCEPT ![th] = AfterCall(th, TRUE), ![c] = "waitStopped"]
    /\ stopped' = (stopped \/ th = Loop)
    /\ UNCHANGED << aux, chans, RequeueChan, resetConnectionChan, Client, blockedList,
                    purgeHighPrio, cur, site, gpc, usedClient, points, env, ghostTx,
                    callsSincePoll >>

\* callProcess with a stop branch that forgets cancel().
CpStopNoCancel(th, c) ==
    /\ pc[th] = "cpSelect"
    /\ pc[c] = "send"
    /\ trace' = Log(th, "cancel")
    /\ pc' = [pc EXCEPT ![th] = "cpWaitDone", ![c] = "waitStopped"]
    /\ UNCHANGED << aux, chans, RequeueChan, resetConnectionChan, Client, stopped,
                    blockedList, purgeHighPrio, cur, site, ctx, gpc, usedClient, points, env,
                    ghostTx, callsSincePoll >>

\* callProcess, case <-w.stopChan, then cancel().
CpStop(th, c) ==
    /\ pc[th] = "cpSelect"
    /\ pc[c] = "send"
    /\ ctx' = [ctx EXCEPT ![th] = "cancelled"]
    /\ trace' = Log(th, "cancel")
    /\ pc' = [pc EXCEPT ![th] = "cpWaitDone", ![c] = "waitStopped"]
    /\ UNCHANGED << aux, chans, RequeueChan, resetConnectionChan, Client, stopped,
                    blockedList, purgeHighPrio, cur, site, gpc, usedClient, points, env,
                    ghostTx, callsSincePoll >>

\* callProcess, the stop branch: <-done, then return the error.
CpWaitDone(th) ==
    /\ pc[th] = "cpWaitDone"
    /\ gpc[th] = "sendDone"
    /\ gpc' = [gpc EXCEPT ![th] = "none"]
    /\ trace' = Log(th, "stopErr")
    /\ pc' = [pc EXCEPT ![th] = AfterCall(th, TRUE)]
    /\ stopped' = (stopped \/ th = Loop)
    /\ UNCHANGED << aux, chans, RequeueChan, resetConnectionChan, Client, blockedList,
                    purgeHighPrio, cur, site, ctx, usedClient, points, env, ghostTx,
                    callsSincePoll >>

\* ------------------------------------------- process, in its own goroutine
\* A process that notes the blocked target and calls t.Process all the same.
GIsBlockNoElse(th) ==
    /\ gpc[th] = "isBlock"
    /\ gpc' = [gpc EXCEPT ![th] = "Process"]
    /\ trace' = Log(th, IF isBlock(cur[th].target) THEN "blocked" ELSE "process")
    /\ usedClient' = [usedClient EXCEPT ![th] = Client]
    /\ UNCHANGED << aux, chans, RequeueChan, resetConnectionChan, Client, stopped,
                    blockedList, pc, purgeHighPrio, cur, site, ctx, points, env, ghostTx,
                    callsSincePoll >>

\* process: target := t.GetTarget(); if w.blockedList.isBlock(target) ... else
\* t.Process(ctx, w.config, w.Client) is called.
GIsBlock(th) ==
    /\ gpc[th] = "isBlock"
    /\ IF isBlock(cur[th].target)
       THEN /\ gpc' = [gpc EXCEPT ![th] = "requeueB"]
            /\ trace' = Log(th, "blocked")
            /\ UNCHANGED usedClient
       ELSE /\ gpc' = [gpc EXCEPT ![th] = "Process"]
            /\ trace' = Log(th, "process")
            /\ usedClient' = [usedClient EXCEPT ![th] = Client]
    /\ UNCHANGED << aux, chans, RequeueChan, resetConnectionChan, Client, stopped,
                    blockedList, pc, purgeHighPrio, cur, site, ctx, points, env, ghostTx,
                    callsSincePoll >>

\* A process that gives up the transaction once its context is cancelled: no
\* breaker update, no requeue.
GProcessReturnDropsCancelled(th, err) ==
    /\ gpc[th] = "Process"
    /\ cur[th].blocks => ctx[th] = "cancelled"
    /\ gpc' = [gpc EXCEPT ![th] = IF ctx[th] = "cancelled" THEN "sendDone"
                                  ELSE IF err THEN "close" ELSE "callback"]
    /\ trace' = Log(th, IF err THEN "err" ELSE "ok")
    /\ UNCHANGED << aux, chans, RequeueChan, resetConnectionChan, Client, stopped,
                    blockedList, pc, purgeHighPrio, cur, site, ctx, usedClient, points, env,
                    ghostTx, callsSincePoll >>

\* t.Process returns, with an error or without one.  A transaction that blocks
\* returns only once its context is cancelled.
GProcessReturn(th, err) ==
    /\ gpc[th] = "Process"
    /\ cur[th].blocks => ctx[th] = "cancelled"
    /\ gpc' = [gpc EXCEPT ![th] = IF err THEN "close" ELSE "callback"]
    /\ trace' = Log(th, IF err THEN "err" ELSE "ok")
    /\ UNCHANGED << aux, chans, RequeueChan, resetConnectionChan, Client, stopped,
                    blockedList, pc, purgeHighPrio, cur, site, ctx, usedClient, points, env,
                    ghostTx, callsSincePoll >>

\* A process that ignores the failure of a purged transaction.
GCloseLoopOnly(th) ==
    /\ gpc[th] = "close"
    /\ IF site[th] = "purge"
       THEN /\ UNCHANGED blockedList
            /\ gpc' = [gpc EXCEPT ![th] = "sendDone"]
            /\ UNCHANGED trace
       ELSE /\ blockedList' = close(cur[th].target)
            /\ gpc' = [gpc EXCEPT ![th] = "requeueF"]
            /\ trace' = Log(th, "close")
    /\ UNCHANGED << aux, chans, RequeueChan, resetConnectionChan, Client, stopped, pc,
                    purgeHighPrio, cur, site, ctx, usedClient, points, env, ghostTx,
                    callsSincePoll >>

\* A process that offers the failed transaction to RequeueChan before it
\* tells the breaker.
GCloseAfterRequeue(th) ==
    /\ gpc[th] = "close"
    /\ IF Len(RequeueChan) < RequeueCap
       THEN /\ RequeueChan' = Append(RequeueChan, cur[th])
            /\ trace' = [trace EXCEPT ![th] = Append(Append(@, "requeue"), "close")]
       ELSE /\ UNCHANGED RequeueChan
            /\ trace' = [trace EXCEPT ![th] = Append(Append(@, "drop"), "close")]
    /\ blockedList' = close(cur[th].target)
    /\ gpc' = [gpc EXCEPT ![th] = "sendDone"]
    /\ UNCHANGED << aux, chans, resetConnectionChan, Client, stopped, pc,
                    purgeHighPrio, cur, site, ctx, usedClient, points, env, ghostTx,
                    callsSincePoll >>

\* process, the error branch: w.blockedList.close(target).
GClose(th) ==
    /\ gpc[th] = "close"
    /\ blockedList' = close(cur[th].target)
    /\ gpc' = [gpc EXCEPT ![th] = "requeueF"]
    /\ trace' = Log(th, "close")
    /\ UNCHANGED << aux, chans, RequeueChan, resetConnectionChan, Client, stopped, pc,
                    purgeHighPrio, cur, site, ctx, usedClient, points, env, ghostTx,
                    callsSincePoll >>

\* A requeue that waits for room on RequeueChan.
GRequeueBlocking(th) ==
    /\ gpc[th] \in {"requeueB", "requeueF"}
    /\ Len(RequeueChan) < RequeueCap
    /\ RequeueChan' = Append(RequeueChan, cur[th])
    /\ trace' = Log(th, "requeue")
    /\ gpc' = [gpc EXCEPT ![th] = "sendDone"]
    /\ UNCHANGED << aux, chans, resetConnectionChan, Client, stopped, blockedList, pc,
                    purgeHighPrio, cur, site, ctx, usedClient, points, env, ghostTx,
                    callsSincePoll >>

\* A requeue that gives up a transaction without a log when RequeueChan is full.
GRequeueSilentDrop(th) ==
    /\ gpc[th] \in {"requeueB", "requeueF"}
    /\ IF Len(RequeueChan) < RequeueCap
       THEN /\ RequeueChan' = Append(RequeueChan, cur[th])
            /\ trace' = Log(th, "requeue")
       ELSE /\ UNCHANGED RequeueChan
            /\ UNCHANGED trace
    /\ gpc' = [gpc EXCEPT ![th] = "sendDone"]
    /\ UNCHANGED << aux, chans, resetConnectionChan, Client, stopped, blockedList, pc,
                    purgeHighPrio, cur, site, ctx, usedClient, points, env, ghostTx,
                    callsSincePoll >>

\* process, requeue(): a non-blocking send on RequeueChan, or the transaction is
\* dropped with an error log; then the error log and the return of process.
GRequeue(th) ==
    /\ gpc[th] \in {"requeueB", "requeueF"}
    /\ IF Len(RequeueChan) < RequeueCap
       THEN /\ RequeueChan' = Append(RequeueChan, cur[th])
            /\ trace' = Log(th, "requeue")
       ELSE /\ UNCHANGED RequeueChan
            /\ trace' = Log(th, "drop")
    /\ gpc' = [gpc EXCEPT ![th] = "sendDone"]
    /\ UNCHANGED << aux, chans, resetConnectionChan, Client, stopped, blockedList, pc,
                    purgeHighPrio, cur, site, ctx, usedClient, points, env, ghostTx,
                    callsSincePoll >>

\* t.GetPointCount(): fixed by the transaction, and different from one
\* transaction to the next.
GetPointCount(t) == t.id

\* A success callback that reports one point for every transaction.
GCallbackOnePoint(th) ==
    /\ gpc[th] = "callback"
    /\ gpc' = [gpc EXCEPT ![th] = "recover"]
    /\ trace' = Log(th, "callback")
    /\ points' = [points EXCEPT ![th] = 1]
    /\ UNCHANGED << aux, chans, RequeueChan, resetConnectionChan, Client, stopped,
                    blockedList, pc, purgeHighPrio, cur, site, ctx, usedClient, env,
                    ghostTx, callsSincePoll >>

\* process, the success branch: OnPointSuccessfullySent(t.GetPointCount()).
GCallback(th) ==
    /\ gpc[th] = "callback"
    /\ gpc' = [gpc EXCEPT ![th] = "recover"]
    /\ trace' = Log(th, "callback")
    /\ points' = [points EXCEPT ![th] = GetPointCount(cur[th])]
    /\ UNCHANGED << aux, chans, RequeueChan, resetConnectionChan, Client, stopped,
                    blockedList, pc, purgeHighPrio, cur, site, ctx, usedClient, env,
                    ghostTx, callsSincePoll >>

\* process, the success branch: w.blockedList.recover(target), and the return.
GRecover(th) ==
    /\ gpc[th] = "recover"
    /\ blockedList' = recover(cur[th].target)
    /\ gpc' = [gpc EXCEPT ![th] = "sendDone"]
    /\ trace' = Log(th, "recover")
    /\ UNCHANGED << aux, chans, RequeueChan, resetConnectionChan, Client, stopped, pc,
                    purgeHighPrio, cur, site, ctx, usedClient, points, env, ghostTx,
                    callsSincePoll >>

\* ------------------------------------------------------------------ Stop
\* A Stop whose send on stopChan completes without a receiver.
StopCallBuffered(c, p) ==
    /\ pc[c] = "idle"
    /\ pc' = [pc EXCEPT ![c] = "waitStopped"]
    /\ purgeHighPrio' = [purgeHighPrio EXCEPT ![c] = p]
    /\ UNCHANGED << aux, chans, RequeueChan, resetConnectionChan, Client, stopped,
                    blockedList, call, env, ghostTx, callsSincePoll >>

\* Stop(purgeHighPrio) is called: the caller is about to send on stopChan.
StopCall(c, p) ==
    /\ pc[c] = "idle"
    /\ pc' = [pc EXCEPT ![c] = "send"]
    /\ purgeHighPrio' = [purgeHighPrio EXCEPT ![c] = p]
    /\ UNCHANGED << aux, chans, RequeueChan, resetConnectionChan, Client, stopped,
                    blockedList, call, env, ghostTx, callsSincePoll >>

\* Stop, <-w.stopped: then the purge loop, or the return.
StopAcked(c) ==
    /\ pc[c] = "waitStopped"
    /\ stopped
    /\ pc' = [pc EXCEPT ![c] = IF purgeHighPrio[c] THEN "purgeSelect" ELSE "returned"]
    /\ UNCHANGED << aux, chans, RequeueChan, resetConnectionChan, Client, stopped,
                    blockedList, purgeHighPrio, call, env, ghostTx, callsSincePoll >>

\* Stop, the purge select, case t := <-w.HighPrio.
PurgeTake(c) ==
    /\ pc[c] = "purgeSelect"
    /\ HighPrio # << >>
    /\ Receive(c, Head(HighPrio), "purge", "purge")
    /\ HighPrio' = Rest(HighPrio)
    /\ UNCHANGED << aux, LowPrio, RequeueChan, resetConnectionChan, Client, stopped,
                    blockedList, purgeHighPrio, ctx, gpc, usedClient, points, trace, env,
                    attempts, prio, callsSincePoll >>

\* A purge that may break out of its loop although HighPrio has an item.
PurgeDefaultEarly(c) ==
    /\ pc[c] = "purgeSelect"
    /\ pc' = [pc EXCEPT ![c] = "returned"]
    /\ UNCHANGED << aux, chans, RequeueChan, resetConnectionChan, Client, stopped,
                    blockedList, purgeHighPrio, call, env, ghostTx, callsSincePoll >>

\* Stop, the purge select, default: break L, and Stop returns.
PurgeDefault(c) ==
    /\ pc[c] = "purgeSelect"
    /\ HighPrio = << >>
    /\ pc' = [pc EXCEPT ![c] = "returned"]
    /\ UNCHANGED << aux, chans, RequeueChan, resetConnectionChan, Client, stopped,
                    blockedList, purgeHighPrio, call, env, ghostTx, callsSincePoll >>

\* ------------------------------------------------ ScheduleConnectionReset
\* A reset request that is queued once per call instead of coalesced.
ScheduleConnectionResetQueued ==
    /\ resetCalls < MaxResetCalls
    /\ resetCalls' = resetCalls + 1
    /\ callsSincePoll' = callsSincePoll + 1
    /\ resetConnectionChan' = resetConnectionChan + 1
    /\ UNCHANGED << aux, chans, RequeueChan, Client, stopped, blockedList, pc,
                    purgeHighPrio, call, nextId, saturated, ghostTx >>

\* A reset request that replaces the client at once, in the caller.
ScheduleConnectionResetEager ==
    /\ resetCalls < MaxResetCalls
    /\ resetCalls' = resetCalls + 1
    /\ callsSincePoll' = callsSincePoll + 1
    /\ Client' = resetConnections
    /\ UNCHANGED << aux, chans, RequeueChan, resetConnectionChan, stopped, blockedList,
                    pc, purgeHighPrio, call, nextId, saturated, ghostTx >>

\* A reset request that waits for room on resetConnectionChan.
ScheduleConnectionResetBlocking ==
    /\ resetCalls < MaxResetCalls
    /\ resetConnectionChan < 1
    /\ resetCalls' = resetCalls + 1
    /\ callsSincePoll' = callsSincePoll + 1
    /\ resetConnectionChan' = resetConnectionChan + 1
    /\ UNCHANGED << aux, chans, RequeueChan, Client, stopped, blockedList, pc,
                    purgeHighPrio, call, nextId, saturated, ghostTx >>

\* A non-blocking send on the 1-buffered resetConnectionChan.
ScheduleConnectionReset ==
    /\ resetCalls < MaxResetCalls
    /\ resetCalls' = resetCalls + 1
    /\ callsSincePoll' = callsSincePoll + 1
    /\ resetConnectionChan' = IF resetConnectionChan < 1 THEN resetConnectionChan + 1
                              ELSE resetConnectionChan
    /\ UNCHANGED << aux, chans, RequeueChan, Client, stopped, blockedList, pc,
                    purgeHighPrio, call, nextId, saturated, ghostTx >>

\* ------------------------------------------------------ the specification
Environment ==
    \/ \E g \in Targets, b \in BOOLEAN : ProduceHigh(g, b)
    \/ \E g \in Targets, b \in BOOLEAN : ProduceLow(g, b)
    \/ RequeueConsume
    \/ \E g \in Targets : CooldownElapses(g)
    \/ ScheduleConnectionReset
    \/ \E p \in BOOLEAN : StopCall("s1", p)

LoopStep ==
    \/ LoopSelect1High
    \/ LoopSelect1Stop("s1")
    \/ LoopSelect1Default
    \/ LoopSelect2High
    \/ LoopSelect2Low
    \/ LoopSelect2Stop("s1")

CallStep(th) ==
    \/ CpPoll(th)
    \/ CpSpawn(th)
    \/ CpDone(th)
    \/ CpStop(th, "s1")
    \/ CpWaitDone(th)

ProcessStep(th) ==
    \/ GIsBlock(th)
    \/ \E err \in BOOLEAN : GProcessReturn(th, err)
    \/ GClose(th)
    \/ GRequeue(th)
    \/ GCallback(th)
    \/ GRecover(th)

StopStep(c) ==
    \/ StopAcked(c)
    \/ PurgeTake(c)
    \/ PurgeDefault(c)

Next ==
    \/ Environment
    \/ Start
    \/ LoopStep
    \/ \E th \in {Loop, "s1"} : CallStep(th)
    \/ \E th \in {Loop, "s1"} : ProcessStep(th)
    \/ StopStep("s1")

Spec == Init /\ [][Next]_vars

\* The Go scheduler runs every goroutine that can take a step, and an execution
\* that is able to return does return.
Fairness ==
    /\ WF_vars(LoopStep)
    /\ \A th \in {Loop, "s1"} : WF_vars(CallStep(th)) /\ WF_vars(ProcessStep(th))
    /\ WF_vars(StopStep("s1"))

FairSpec == Spec /\ Fairness

\* The Worker with a producer that may start to keep both inputs saturated.  A
\* select chooses at random among its ready cases, so a case that is ready
\* again and again is chosen.
NextSat == Next \/ Saturate

SatSpec == Init /\ [][NextSat]_vars /\ Fairness /\ SF_vars(LoopSelect2Low)

\* The Worker with two callers of Stop: the send of one can be received by the
\* loop, or by the callProcess of the other's purge.  No connection reset is
\* requested here: ScheduleConnectionReset has no part in stopChan.
TwoStopNext ==
    \/ \E g \in Targets, b \in BOOLEAN : ProduceHigh(g, b)
    \/ \E g \in Targets, b \in BOOLEAN : ProduceLow(g, b)
    \/ RequeueConsume
    \/ \E g \in Targets : CooldownElapses(g)
    \/ \E c \in StopCallers, p \in BOOLEAN : StopCall(c, p)
    \/ Start
    \/ LoopStep
    \/ \E th \in {Loop, "s1"} : CallStep(th)
    \/ \E th \in {Loop, "s1"} : ProcessStep(th)
    \/ StopStep("s1")
    \/ LoopSelect1Stop("s2")
    \/ LoopSelect2Stop("s2")
    \/ \E th \in {Loop, "s1"} : CpStop(th, "s2")
    \/ CallStep("s2")
    \/ ProcessStep("s2")
    \/ StopStep("s2")

TwoStopSpec == Init /\ [][TwoStopNext]_vars

\* ------------------------------------------------- USMConnectionData
\* IsPIDCollision(c): the data and the value the method leaves and returns.  A
\* data whose sport and dport are both zero is taken to be unclaimed and
\* records the caller's ports; a caller with the recorded ports reversed is
\* the other end of the same connection.
IsPIDCollision(gd, SPort, DPort) ==
    IF gd.sport = 0 /\ gd.dport = 0
    THEN [gd |-> [gd EXCEPT !.sport = SPort, !.dport = DPort], ret |-> FALSE]
    ELSE IF SPort = gd.dport /\ DPort = gd.sport
         THEN [gd |-> gd, ret |-> FALSE]
         ELSE [gd |-> gd, ret |-> TRUE]

\* A connection with ports (SPort, DPort) calls IsPIDCollision on the data.
CallIsPIDCollision(SPort, DPort) ==
    /\ usm.calls < MaxCalls
    /\ LET r == IsPIDCollision(usm, SPort, DPort)
       IN usm' = [r.gd EXCEPT !.calls = usm.calls + 1,
                              !.first = IF usm.calls = 0 THEN << SPort, DPort >> ELSE @,
                              !.arg = << SPort, DPort >>,
                              !.ret = r.ret]
    /\ UNCHANGED << cs, idx, worker >>

USMNext == \E SPort, DPort \in Ports : CallIsPIDCollision(SPort, DPort)

USMSpec == Init /\ [][USMNext]_vars

\* --------------------------------------------------------------- claims
Has(s, e) == \E i \in 1 .. Len(s) : s[i] = e
Before(s, a, b) == \E i, j \in 1 .. Len(s) : i < j /\ s[i] = a /\ s[j] = b
IsStep(e) == e \in {"blocked", "process", "err", "ok", "close", "requeue", "drop",
                    "callback", "recover"}
\* What process did in the last callProcess of a thread, in order.
Steps(th) == SelectSeq(trace[th], IsStep)
\* The complete runs of process.
Handled == { << "blocked", "requeue" >>, << "blocked", "drop" >>,
             << "process", "err", "close", "requeue" >>,
             << "process", "err", "close", "drop" >>,
             << "process", "ok", "callback", "recover" >> }
Running(th) == gpc[th] # "none"

\* C1: at most one execution goroutine of the Worker is alive at any time, and
\* a goroutine is alive only while the callProcess that spawned it is waiting
\* for it (in its select or, on the stop path, in <-done); so the executions
\* of the loop and those of the purge never overlap.
C1_AtMostOneInFlight ==
    /\ Cardinality({th \in Threads : Running(th)}) <= 1
    /\ \A th \in Threads : Running(th) => pc[th] \in {"cpSelect", "cpWaitDone"}
    /\ \A c \in StopCallers : Running(c) => pc[Loop] = "exited" /\ ~Running(Loop)

\* C1 witness: the purge is executing a transaction after the loop's last
\* execution was cancelled by the stop signal.
C1_Witness ==
    /\ gpc["s1"] = "Process"
    /\ Has(trace[Loop], "stopErr")
    /\ ~Running(Loop)

\* C3, as stated: an execution that was cancelled by the stop signal makes no
\* requeue and no breaker update after the cancel.
C3_Original ==
    \A th \in Threads :
        ~ \E e \in {"requeue", "close", "recover"} : Before(trace[th], "cancel", e)

\* C3, amended: when callProcess returns on the stop path, process has handled
\* the in-flight transaction as it handles any other: breaker-blocked, it was
\* offered to the requeue channel; failed, close then the requeue offer;
\* succeeded, the success callback then recover.
C3_CancelledIsHandled ==
    \A th \in Threads : Has(trace[th], "stopErr") => Steps(th) \in Handled

\* C3 witness: the execution was cancelled, returned an error after the cancel,
\* and was then closed on the breaker and requeued.
C3_Witness ==
    /\ Has(trace[Loop], "stopErr")
    /\ Before(trace[Loop], "cancel", "err")
    /\ Before(trace[Loop], "err", "close")
    /\ Before(trace[Loop], "close", "requeue")
    /\ blockedList[cur[Loop].target].failures > 0

\* C4, as stated: the executions of the purge make no requeue and no breaker
\* update.
C4_Original ==
    \A c \in StopCallers :
        ~ \E e \in {"requeue", "close", "recover"} : Has(trace[c], e)

\* C4, amended: a purged transaction is handled by process as in the loop (the
\* requeue offer when blocked, close then the requeue offer when failed, the
\* callback then recover when succeeded); only callProcess's result is ignored.
C4_PurgedIsHandled ==
    \A c \in StopCallers :
        (site[c] = "purge" /\ pc[c] \in {"purgeSelect", "returned"})
            => Steps(c) \in Handled

\* C4 witness: a purged transaction failed, was closed on the breaker and
\* requeued, and Stop then returned.
C4_Witness ==
    /\ pc["s1"] = "returned"
    /\ Steps("s1") = << "process", "err", "close", "requeue" >>
    /\ cur["s1"] \in { RequeueChan[i] : i \in 1 .. Len(RequeueChan) }

\* C6: once Stop has got past <-w.stopped, the loop has exited and its
\* execution goroutine has returned; and on the stop path of callProcess the
\* context of the execution is cancelled while callProcess waits for it.
C6_StopWaitsForExecution ==
    /\ \A c \in StopCallers :
          pc[c] \notin {"idle", "send", "waitStopped"}
              => pc[Loop] = "exited" /\ ~Running(Loop)
    /\ pc[Loop] = "cpWaitDone" => ctx[Loop] = "cancelled"
    /\ \A c \in StopCallers :
          (pc[c] = "returned" /\ cur[Loop].blocks /\ Has(trace[Loop], "process"))
              => \E e \in {"err", "ok"} : Before(trace[Loop], "cancel", e)

\* C6 witness: Stop(false) has returned, after a blocking execution that was
\* cancelled and then returned.
C6_Witness ==
    /\ pc["s1"] = "returned"
    /\ ~purgeHighPrio["s1"]
    /\ cur[Loop].blocks
    /\ Before(trace[Loop], "process", "cancel")
    /\ Before(trace[Loop], "cancel", "err")
    /\ Has(trace[Loop], "stopErr")

\* C5: when Stop(true) returns (no producer refilling the input at once),
\* HighPrio is empty and every transaction that was sent on HighPrio has been
\* received exactly once and handed to process exactly once, by the loop or by
\* the purge; and the purge receives only transactions sent on HighPrio.
C5_PurgeDrainsHighOnce ==
    /\ [][ \A c \in StopCallers :
             (pc[c] # "returned" /\ pc'[c] = "returned" /\ purgeHighPrio[c]
                  /\ ~saturated)
                 => /\ HighPrio' = << >>
                    /\ \A i \in Ids : prio'[i] = "high"
                           => taken'[i] = 1 /\ attempts'[i] = 1 ]_vars
    /\ [][ \A c \in StopCallers :
             pc[c] \in {"purgeSelect", "returned"} /\ pc'[c] # pc[c]
                 => LowPrio' = LowPrio ]_vars
    /\ [] (\A i \in Ids : takenBy[i] = "purge" => prio[i] = "high")

\* C5 witness: Stop(true) has returned; one high-priority transaction was
\* executed by the loop and another by the purge.
C5_Witness ==
    /\ pc["s1"] = "returned"
    /\ purgeHighPrio["s1"]
    /\ HighPrio = << >>
    /\ \E i, j \in Ids : /\ prio[i] = "high" /\ takenBy[i] = "loop"
                         /\ prio[j] = "high" /\ takenBy[j] = "purge"
                         /\ attempts[i] = 1 /\ attempts[j] = 1

Polls(th) == pc[th] = "cpPoll" /\ pc'[th] = "cpSpawn"

\* C8: a reset is pending exactly when ScheduleConnectionReset was called at
\* least once since the last poll of callProcess; the client changes only in
\* that poll, at the start of an execution, and the poll replaces it exactly
\* once when there was a call and not at all when there was none.
C8_ResetCoalesced ==
    /\ [] (resetConnectionChan \in {0, 1}
              /\ (resetConnectionChan = 1 <=> callsSincePoll >= 1))
    /\ [][ Client' # Client => \E th \in Threads : Polls(th) ]_vars
    /\ [][ (\E th \in Threads : Polls(th))
              => /\ Client' = Client + (IF callsSincePoll >= 1 THEN 1 ELSE 0)
                 /\ resetConnectionChan' = 0 ]_vars

\* C8 witness: two calls were made before one poll, and the client was replaced
\* once.
C8_Witness ==
    /\ resetCalls = 2
    /\ Client = 1
    /\ resetConnectionChan = 0
    /\ \E th \in Threads : trace[th] = << "reset" >> /\ pc[th] = "cpSpawn"

\* C9: the client is replaced only when no execution goroutine of the Worker
\* is alive, so the client handed to a running t.Process stays the Worker's
\* client until it returns.
C9_NoResetWhileExecuting ==
    /\ [][ Client' # Client => \A th \in Threads : ~Running(th) ]_vars
    /\ [] (\A th \in Threads : gpc[th] = "Process" => usedClient[th] = Client)

\* C9 witness: ScheduleConnectionReset was called while a transaction is being
\* processed; the reset is pending and the client is untouched.
C9_Witness ==
    /\ gpc[Loop] = "Process"
    /\ resetConnectionChan = 1
    /\ callsSincePoll = 2
    /\ usedClient[Loop] = Client

AtRequeue(th) == gpc[th] \in {"requeueB", "requeueF"}
Full == Len(RequeueChan) >= RequeueCap

\* C10: requeue never waits: it is always able to take its step, and when the
\* requeue channel is full the step leaves the channel alone, logs the drop and
\* lets process return; the callProcess waiting for it is then able to go on.
C10_RequeueNeverBlocks ==
    /\ [] (\A th \in Threads : AtRequeue(th) => ENABLED GRequeue(th))
    /\ [][ \A th \in Threads :
             (AtRequeue(th) /\ Full /\ gpc'[th] # gpc[th])
                 => /\ RequeueChan' = RequeueChan
                    /\ trace'[th] = Append(trace[th], "drop")
                    /\ gpc'[th] = "sendDone" ]_vars
    /\ [] (\A th \in Threads :
              gpc[th] = "sendDone" => ENABLED (CpDone(th) \/ CpWaitDone(th)))

\* C10 witness: a failed transaction was dropped because the requeue channel
\* was full, callProcess returned nil and the loop is back in its select.
C10_Witness ==
    /\ Full
    /\ trace[Loop] = << "process", "err", "close", "drop", "nil" >>
    /\ pc[Loop] = "select2"

StopRequested == \E c \in StopCallers : pc[c] # "idle"
\* An execution that cannot return: its transaction blocks and nothing has
\* cancelled its context.
Stuck(th) == gpc[th] = "Process" /\ cur[th].blocks /\ ctx[th] = "live"
LowExecuting == site[Loop] = "low2" /\ pc[Loop] \in {"cpPoll", "cpSpawn", "cpSelect"}

\* C2, as stated: once both inputs are saturated, with the loop started, no
\* stop requested and every execution returning, the loop eventually receives
\* and executes a low-priority transaction.
C2_Original ==
    (saturated /\ pc[Loop] # "init") ~> (LowExecuting \/ StopRequested \/ Stuck(Loop))

\* C2, amended: while HighPrio always has an item ready, the loop's first
\* (non-blocking) select always receives from HighPrio: the loop never gets to
\* the blocking select and receives no low-priority transaction.
C2_SaturatedHighStarvesLow ==
    [][ (saturated /\ pc[Loop] # "select2")
           => /\ pc'[Loop] # "select2"
              /\ ~(pc[Loop] # "cpPoll" /\ pc'[Loop] = "cpPoll" /\ site'[Loop] = "low2")
      ]_vars

\* C2 witness: both inputs are saturated, LowPrio has an item ready, and the
\* loop has executed a high-priority transaction from the first select more
\* than once and is back at that select.
C2_Witness ==
    /\ saturated
    /\ LowPrio # << >>
    /\ pc[Loop] = "select1"
    /\ site[Loop] = "high1"
    /\ attempts[cur[Loop].id] >= 2

\* C7, as stated: once the loop is started, a Stop call that has reached its
\* send eventually returns, provided every execution returns once its context
\* is cancelled (HighPrio is not refilled forever).
C7_Original ==
    (pc["s1"] = "send" /\ pc[Loop] # "init") ~> (pc["s1"] = "returned")

\* C7, amended: such a Stop call eventually returns unless its purge executes a
\* transaction that returns only on cancellation: the purge never cancels.
C7_StopReturns ==
    (pc["s1"] = "send" /\ pc[Loop] # "init")
        ~> (pc["s1"] = "returned" \/ Stuck("s1"))

\* C7 witness: Stop(true) has returned after the stop signal cancelled the
\* loop's execution and the purge executed a transaction.
C7_Witness ==
    /\ pc["s1"] = "returned"
    /\ purgeHighPrio["s1"]
    /\ Has(trace[Loop], "stopErr")
    /\ Has(trace["s1"], "nil")

\* ---------------------------------------------- outcomes of an execution
IsOutcome(e) == e \in {"callback", "requeue", "drop"}
\* The outcomes the last callProcess of a thread has produced so far.
Outcomes(th) == SelectSeq(trace[th], IsOutcome)
\* The last callProcess of a thread has returned.
Returned(th) == Has(trace[th], "nil") \/ Has(trace[th], "stopErr")
\* callProcess has been entered and has not returned.
InCall(th) == pc[th] \in {"cpSelect", "cpWaitDone"}

\* C11: a transaction received from HighPrio or LowPrio is handed to
\* callProcess, and when that callProcess returns (with nil or on the stop
\* path) the transaction has had exactly one outcome: the success callback, a
\* send on RequeueChan, or a logged drop because RequeueChan was full.  While
\* the call runs there is at most one outcome, and exactly one as soon as
\* process is through.
C11_ExactlyOneOutcome ==
    \A th \in Threads :
        cur[th] # NoTx =>
            IF pc[th] \in {"cpPoll", "cpSpawn"} THEN taken[cur[th].id] >= 1
            ELSE IF InCall(th)
                 THEN /\ Len(Outcomes(th)) <= 1
                      /\ gpc[th] \in {"sendDone", "none"} => Len(Outcomes(th)) = 1
                 ELSE Returned(th) /\ Len(Outcomes(th)) = 1

\* C11 witness: the loop has executed a transaction whose execution was
\* cancelled by the stop signal and has exited; the transaction was dropped
\* because RequeueChan was full.
C11_Witness ==
    /\ pc[Loop] = "exited"
    /\ Has(trace[Loop], "stopErr")
    /\ Outcomes(Loop) = << "drop" >>

IsCallback(e) == e = "callback"
\* How often the last callProcess of a thread has called OnPointSuccessfullySent.
Callbacks(th) == Len(SelectSeq(trace[th], IsCallback))

\* C12: in one execution OnPointSuccessfullySent is called at most once; it has
\* been called once when the execution returns after Process returned no error,
\* its argument is the point count of the executed transaction, and it is not
\* called in an execution that the breaker blocked or whose Process returned
\* an error.
C12_CallbackOncePerSuccess ==
    \A th \in Threads :
        /\ Callbacks(th) <= 1
        /\ Callbacks(th) = 1 => Has(trace[th], "ok")
        /\ (Has(trace[th], "blocked") \/ Has(trace[th], "err")) => Callbacks(th) = 0
        /\ (Returned(th) /\ Has(trace[th], "ok")) => Callbacks(th) = 1
        /\ Callbacks(th) = 0 => points[th] = 0
        /\ (Callbacks(th) = 1 /\ pc[th] # "cpPoll") => points[th] = GetPointCount(cur[th])

\* C12 witness: the loop is back at its select after the second transaction
\* was sent, and the callback was given that transaction's point count.
C12_Witness ==
    /\ pc[Loop] = "select1"
    /\ Steps(Loop) = << "process", "ok", "callback", "recover" >>
    /\ cur[Loop].id = 2
    /\ points[Loop] = GetPointCount(cur[Loop])

\* C13: in an execution in which isBlock reported the target as blocked,
\* t.Process is not called, the transaction is offered to RequeueChan (sent,
\* or dropped with a log when it is full) before process returns, and neither
\* close nor recover is called: the steps of process are isBlock and the
\* requeue only, and the requeue leaves the breaker as it is.
C13_BlockedIsOnlyRequeued ==
    /\ [](\A th \in Threads :
            Has(trace[th], "blocked") =>
                /\ Steps(th) \in { << "blocked" >>, << "blocked", "requeue" >>,
                                   << "blocked", "drop" >> }
                /\ (gpc[th] \in {"sendDone", "none"} \/ Returned(th)) => Len(Steps(th)) = 2)
    /\ [][ \A th \in Threads :
             (gpc[th] = "requeueB" /\ gpc'[th] # "requeueB")
                 => /\ blockedList' = blockedList
                    /\ usedClient' = usedClient
                    /\ gpc'[th] = "sendDone" ]_vars

\* C13 witness: the loop is back at its select after a transaction whose
\* target was blocked: the transaction is on RequeueChan and the breaker is
\* still open.
C13_Witness ==
    /\ pc[Loop] = "select1"
    /\ Steps(Loop) = << "blocked", "requeue" >>
    /\ RequeueChan # << >>
    /\ blockedList[cur[Loop].target].state = "open"

\* The loop receives a transaction in this step.
LoopTakes == pc[Loop] # "cpPoll" /\ pc'[Loop] = "cpPoll"

\* C14: when the loop is at its first (non-blocking) select with an item on
\* HighPrio and no Stop caller sending, the only thing it can do is receive that
\* item; it gets to the second (blocking) select only from a first select that
\* found HighPrio empty, and it receives from LowPrio only in the second
\* select.
C14_HighBeforeLow ==
    /\ []((pc[Loop] = "select1" /\ HighPrio # << >>)
             => (ENABLED LoopSelect1High) /\ ~(ENABLED LoopSelect1Default))
    /\ [][ /\ (pc[Loop] = "select1" /\ HighPrio # << >> /\ ~StopPending
                 /\ pc'[Loop] # "select1")
                  => (LoopTakes /\ site'[Loop] = "high1" /\ cur'[Loop] = Head(HighPrio))
           /\ (pc[Loop] # "select2" /\ pc'[Loop] = "select2")
                  => (pc[Loop] = "select1" /\ HighPrio = << >>)
           /\ (LoopTakes /\ site'[Loop] = "low2")
                  => (pc[Loop] = "select2" /\ cur'[Loop] = Head(LowPrio)) ]_vars

\* C14 witness: the loop has received a low-priority transaction in the second
\* select, and a high-priority transaction that arrived after the first select
\* is waiting.
C14_Witness ==
    /\ pc[Loop] = "cpPoll"
    /\ site[Loop] = "low2"
    /\ prio[cur[Loop].id] = "low"
    /\ HighPrio # << >>

\* ------------------------------------------------- IsPIDCollision
\* The ports recorded on the data, and a pair of ports reversed.
Recorded == << usm.sport, usm.dport >>
Reverse(p) == << p[2], p[1] >>

\* C15, as stated: the first connection to call IsPIDCollision on a data gets
\* false and its ports are recorded and stay recorded; every later call gets
\* true, except a call by a connection whose ports are the recorded pair
\* reversed, which gets false.
C15_Original ==
    /\ usm.calls >= 1 => Recorded = usm.first
    /\ usm.calls = 1 => ~usm.ret
    /\ usm.calls >= 2 => (usm.ret <=> usm.arg # Reverse(usm.first))

\* C16, as stated: when a Stop caller is sending as the loop begins an
\* iteration (it is at its first select), the loop's next step is to exit: it
\* receives nothing from HighPrio or LowPrio and starts no execution, even if
\* HighPrio has an item.
C16_Original ==
    [][ (pc[Loop] = "select1" /\ StopPending /\ pc'[Loop] # "select1")
            => (pc'[Loop] = "exited" /\ UNCHANGED << chans, cur, gpc >>) ]_vars

\* C16, amended: with a Stop caller sending at the first select, the loop
\* exits at once if HighPrio is empty (the default is not taken); if HighPrio
\* has an item both cases are ready and either may be chosen, so the loop may
\* still receive and execute that item.  Once the loop has exited it receives
\* nothing and starts no execution.
C16_StopReceivedEndsLoop ==
    /\ []((pc[Loop] = "select1" /\ StopPending /\ HighPrio # << >>)
             => (ENABLED LoopSelect1High) /\ (\E c \in StopCallers : ENABLED LoopSelect1Stop(c)))
    /\ [][ /\ (pc[Loop] = "select1" /\ StopPending /\ HighPrio = << >>
                 /\ pc'[Loop] # "select1")
                  => (pc'[Loop] = "exited" /\ stopped' /\ UNCHANGED << chans, cur, gpc >>)
           /\ pc[Loop] = "exited"
                  => (pc'[Loop] = "exited" /\ cur'[Loop] = cur[Loop]
                      /\ gpc'[Loop] = gpc[Loop] /\ ~LoopTakes) ]_vars

\* C16 witness: the loop received the stop signal in a select and has exited
\* with a transaction left on HighPrio and one on LowPrio; Stop(false) has
\* returned.
C16_Witness ==
    /\ pc[Loop] = "exited"
    /\ ~Has(trace[Loop], "stopErr")
    /\ HighPrio # << >>
    /\ LowPrio # << >>
    /\ pc["s1"] = "returned"
    /\ ~purgeHighPrio["s1"]

\* A Stop caller's send on stopChan has been received.
StopReceived == \E c \in StopCallers : pc[c] \notin {"idle", "send"}

\* C17: the loop has exited, and stopped is closed, only if the stop signal has
\* been received; the step in which the loop exits is the receive of the stop
\* signal in one of its selects or the return of a callProcess that received
\* it; a callProcess that returns nil (whatever process did: a failure, a
\* blocked target, a drop on a full RequeueChan) takes the loop back to its
\* first select.
C17_OnlyStopEndsLoop ==
    /\ [](/\ pc[Loop] = "exited" => StopReceived
          /\ stopped <=> pc[Loop] = "exited")
    /\ [][ /\ (pc[Loop] # "exited" /\ pc'[Loop] = "exited")
                  => \/ (pc[Loop] \in {"select1", "select2"}
                           /\ \E c \in StopCallers : pc[c] = "send" /\ pc'[c] = "waitStopped")
                     \/ (pc[Loop] = "cpWaitDone" /\ Has(trace[Loop], "cancel"))
           /\ (pc[Loop] = "cpSelect" /\ pc'[Loop] \notin {"cpSelect", "cpWaitDone"})
                  => pc'[Loop] = "select1" ]_vars

\* C17 witness: the loop is back at its first select, not stopped, after an
\* execution that failed and whose transaction was dropped because RequeueChan
\* was full, with the breaker now open.
C17_Witness ==
    /\ pc[Loop] = "select1"
    /\ ~stopped
    /\ Steps(Loop) = << "process", "err", "close", "drop" >>
    /\ blockedList[cur[Loop].target].state = "open"

\* C18: once callProcess of the loop has received the stop signal and
\* cancelled the execution, the loop only waits for the execution to return
\* and then exits: callProcess returns its error, the loop returns, stopped is
\* closed, and nothing is received from HighPrio or LowPrio on the way,
\* whichever select the transaction came from.
C18_CancelledEndsLoop ==
    /\ [](/\ Has(trace[Loop], "cancel") => pc[Loop] \in {"cpWaitDone", "exited"}
          /\ Has(trace[Loop], "stopErr") => (pc[Loop] = "exited" /\ stopped))
    /\ [][ /\ (pc[Loop] = "cpWaitDone" /\ pc'[Loop] # "cpWaitDone")
                  => /\ pc'[Loop] = "exited"
                     /\ stopped'
                     /\ Has(trace'[Loop], "stopErr")
                     /\ site[Loop] \in {"high1", "high2", "low2"}
           /\ Has(trace[Loop], "cancel")
                  => (~LoopTakes /\ site'[Loop] = site[Loop] /\ cur'[Loop] = cur[Loop]) ]_vars

\* C18 witness: the loop has exited after the stop signal cancelled the
\* execution of a low-priority transaction received in the blocking select,
\* and a high-priority transaction is left on HighPrio.
C18_Witness ==
    /\ pc[Loop] = "exited"
    /\ stopped
    /\ Has(trace[Loop], "stopErr")
    /\ site[Loop] = "low2"
    /\ HighPrio # << >>

\* p is the beginning of s.
IsPrefix(p, s) == Len(p) <= Len(s) /\ \A i \in 1 .. Len(p) : p[i] = s[i]

\* C19: what process has done so far in an execution is always the beginning
\* of one of its complete runs: after an error close(target) comes before the
\* offer to RequeueChan, after a success the callback comes before
\* recover(target); close and recover are never both called in one execution,
\* and each at most once.
C19_CompletionOrder ==
    \A th \in Threads :
        /\ \E h \in Handled : IsPrefix(Steps(th), h)
        /\ ~(Has(trace[th], "close") /\ Has(trace[th], "recover"))
        /\ (Has(trace[th], "requeue") \/ Has(trace[th], "drop")) /\ Has(trace[th], "err")
               => (Before(trace[th], "close", "requeue") \/ Before(trace[th], "close", "drop"))
        /\ Has(trace[th], "recover") => Before(trace[th], "callback", "recover")

\* C19 witness: the loop's execution has failed, the breaker has been told and
\* has opened, and the transaction has not been offered to RequeueChan yet:
\* the loop is still waiting for done.
C19_Witness ==
    /\ pc[Loop] = "cpSelect"
    /\ gpc[Loop] = "requeueF"
    /\ Steps(Loop) = << "process", "err", "close" >>
    /\ blockedList[cur[Loop].target].state = "open"
    /\ RequeueChan = << >>

\* The state of the Worker and of its channels, the pending-reset flag apart.
WorkerState ==
    << chans, RequeueChan, Client, stopped, blockedList, pc, purgeHighPrio, call >>

\* C20: a call of ScheduleConnectionReset can complete in every state of the
\* Worker (not started, idle in a select, executing, stopped): it waits for
\* nothing.  It leaves the pending-reset flag set and changes nothing else; when
\* the flag was already set it changes nothing at all.
C20_ScheduleNeverBlocks ==
    /\ [](resetCalls < MaxResetCalls => ENABLED ScheduleConnectionReset)
    /\ [][ resetCalls' # resetCalls
              => /\ resetConnectionChan' = 1
                 /\ UNCHANGED WorkerState ]_vars

\* C20 witness: ScheduleConnectionReset was called twice while the loop's
\* transaction was being processed: both calls returned, one reset is pending
\* and the execution goes on.
C20_Witness ==
    /\ gpc[Loop] = "Process"
    /\ pc[Loop] = "cpSelect"
    /\ callsSincePoll = 2
    /\ resetCalls = MaxResetCalls
    /\ resetConnectionChan = 1

\* ------------------------------------------------------- cachingStore
\* get(key) is called.
GetCall(g, k) ==
    /\ cs.pc[g] = "idle"
    /\ cs.calls < MaxGets
    /\ cs' = [cs EXCEPT !.pc[g] = "lock", !.key[g] = k, !.calls = @ + 1]
    /\ UNCHANGED << usm, idx, worker >>

\* A get that does not take the mutex.
GetLockNoMutex(g) ==
    /\ cs.pc[g] = "lock"
    /\ cs' = [cs EXCEPT !.pc[g] = "lookup"]
    /\ UNCHANGED << usm, idx, worker >>

\* s.l.Lock(): the caller gets the mutex once it is free.
GetLock(g) ==
    /\ cs.pc[g] = "lock"
    /\ cs.l = "none"
    /\ cs' = [cs EXCEPT !.l = g, !.pc[g] = "lookup"]
    /\ UNCHANGED << usm, idx, worker >>

\* value, found := s.cache[key]; if found { return value, nil }.
GetLookup(g) ==
    /\ cs.pc[g] = "lookup"
    /\ LET c == cs.cache[cs.key[g]]
       IN  cs' = IF c.found
                 THEN [cs EXCEPT !.ret[g] = [value |-> c.value, err |-> FALSE],
                                 !.pc[g] = "unlock"]
                 ELSE [cs EXCEPT !.pc[g] = "ask"]
    /\ UNCHANGED << usm, idx, worker >>

\* value, err = s.s.get(key): the underlying store answers with a value or
\* with an error; on an error get returns "" and the error, otherwise it
\* caches the value and returns it.
GetUnderlying(g, v, err) ==
    /\ cs.pc[g] = "ask"
    /\ LET k == cs.key[g]
       IN  cs' = IF err
                 THEN [cs EXCEPT !.ret[g] = [value |-> "", err |-> TRUE],
                                 !.asked[k] = Min(@ + 1, MaxGets),
                                 !.pc[g] = "unlock"]
                 ELSE [cs EXCEPT !.ret[g] = [value |-> v, err |-> FALSE],
                                 !.cache[k] = [found |-> TRUE, value |-> v],
                                 !.asked[k] = Min(@ + 1, MaxGets),
                                 !.ok[k] = Min(@ + 1, MaxGets),
                                 !.first[k] = IF cs.ok[k] = 0 THEN v ELSE @,
                                 !.pc[g] = "unlock"]
    /\ UNCHANGED << usm, idx, worker >>

\* The return of get, and the deferred s.l.Unlock().
GetReturn(g) ==
    /\ cs.pc[g] = "unlock"
    /\ cs' = [cs EXCEPT !.l = IF @ = g THEN "none" ELSE @, !.pc[g] = "idle"]
    /\ UNCHANGED << usm, idx, worker >>

StoreNext ==
    \/ \E g \in Getters, k \in StoreKeys : GetCall(g, k)
    \/ \E g \in Getters : GetLock(g)
    \/ \E g \in Getters : GetLookup(g)
    \/ \E g \in Getters, v \in Values, err \in BOOLEAN : GetUnderlying(g, v, err)
    \/ \E g \in Getters : GetReturn(g)

StoreSpec == Init /\ [][StoreNext]_vars

\* ------------------------------------------------------ two calls of Stop
\* C21, as stated: once the loop has exited, a Stop caller that is at its send
\* on stopChan stays there: nobody receives, and the call never returns.
C21_Original ==
    [][ \A c \in StopCallers :
          (pc[c] = "send" /\ pc[Loop] = "exited") => pc'[c] = "send" ]_vars

\* C21, amended: the send of a Stop call completes only when it is received, by
\* the loop in one of its selects (the loop then exits), or by a callProcess
\* that is waiting in its select: the loop's, or the one of another Stop
\* caller's purge.  So no Stop gets past its send before Start, the loop
\* receives one stop signal at most, and once the loop has exited a Stop call
\* stays at its send for as long as no other caller's purge is executing a
\* transaction.
C21_StopNeedsReceiver ==
    /\ [](pc[Loop] = "init" => \A c \in StopCallers : pc[c] \in {"idle", "send"})
    /\ [][ /\ \A c \in StopCallers :
                (pc[c] = "send" /\ pc'[c] # "send")
                    => /\ pc'[c] = "waitStopped"
                       /\ \/ pc[Loop] \in {"select1", "select2"} /\ pc'[Loop] = "exited"
                          \/ \E th \in Threads \ {c} :
                                pc[th] = "cpSelect" /\ pc'[th] = "cpWaitDone"
           /\ \A c \in StopCallers :
                (pc[c] = "send" /\ pc[Loop] = "exited"
                   /\ \A d \in StopCallers \ {c} : pc[d] # "cpSelect")
                    => pc'[c] = "send"
           /\ pc[Loop] = "exited" => pc'[Loop] = "exited" ]_vars

\* C21 witness: the loop had exited on the first caller's signal; the second
\* caller's signal was received by the callProcess of the first caller's purge,
\* which cancelled its execution, and the second Stop has returned.
C21_Witness ==
    /\ pc[Loop] = "exited"
    /\ ~Has(trace[Loop], "stopErr")
    /\ site["s1"] = "purge"
    /\ Has(trace["s1"], "stopErr")
    /\ pc["s2"] = "returned"

\* ------------------------------------------------- cachingStore.get
\* C22: with any number of concurrent callers, the underlying store answers
\* successfully at most once per key, the cache holds a key exactly when it
\* did, and holds the value of that answer; the underlying store is asked only
\* by the holder of the mutex and only for a key that is not cached; a get that
\* finds the key cached returns that value without asking; a get that fails
\* returns "" and the error and leaves the cache as it was, and a get that
\* finds the key not cached always asks the underlying store.
C22_CachedAfterFirstSuccess ==
    /\ [](\A k \in StoreKeys :
            /\ cs.ok[k] <= 1
            /\ cs.cache[k].found <=> cs.ok[k] = 1
            /\ cs.cache[k].found => cs.cache[k].value = cs.first[k])
    /\ [](\A g \in Getters :
            /\ cs.pc[g] = "ask" => (cs.l = g /\ ~cs.cache[cs.key[g]].found)
            /\ cs.pc[g] = "unlock"
                  => IF cs.ret[g].err THEN cs.ret[g].value = ""
                     ELSE /\ cs.cache[cs.key[g]].found
                          /\ cs.ret[g].value = cs.first[cs.key[g]])
    /\ [][ \A g \in Getters :
             /\ (cs.pc[g] = "lookup" /\ cs.cache[cs.key[g]].found /\ cs'.pc[g] # "lookup")
                   => (cs'.pc[g] = "unlock" /\ cs'.asked = cs.asked /\ cs'.cache = cs.cache
                       /\ ~cs'.ret[g].err)
             /\ (cs.pc[g] = "lookup" /\ ~cs.cache[cs.key[g]].found /\ cs'.pc[g] # "lookup")
                   => cs'.pc[g] = "ask"
             /\ (cs.pc[g] = "ask" /\ cs'.pc[g] = "unlock")
                   => /\ cs'.asked[cs.key[g]] = Min(cs.asked[cs.key[g]] + 1, MaxGets)
                      /\ cs'.ret[g].err => cs'.cache = cs.cache ]_vars

\* C22 witness: three gets of one key, by two callers: the underlying store
\* failed once and answered once, and one get is returning the cached value
\* without having asked.
C22_Witness ==
    /\ cs.calls = 3
    /\ cs.asked = [k \in StoreKeys |-> IF k = "k1" THEN 2 ELSE 0]
    /\ cs.ok["k1"] = 1
    /\ cs.pc = [g \in Getters |-> IF g = "g1" THEN "unlock" ELSE "idle"]
    /\ cs.key["g1"] = "k1"
    /\ cs.ret["g1"] = [value |-> "a", err |-> FALSE]
    /\ cs.ret["g2"].err

\* ------------------------------------------------- USMConnectionIndex
\* GroupByConnection(protocol, data, keyGen): the index is made with an empty
\* map, and the first pass begins; with an empty data both passes do nothing.
GroupByConnection(data, keyGen) ==
    /\ idx.phase = "none"
    /\ idx' = [idx EXCEPT !.phase = IF DOMAIN data = {} THEN "ready" ELSE "pass1",
                          !.data = data, !.keyGen = keyGen, !.todo = DOMAIN data]
    /\ UNCHANGED << usm, cs, worker >>

\* A first pass that counts an entry only when it creates it.
FirstPassCountsNew(key) ==
    /\ idx.phase = "pass1"
    /\ key \in idx.todo
    /\ LET connectionKey == idx.keyGen[key]
           old == idx.byConnection[connectionKey]
           connectionData == IF old.present THEN old
                             ELSE [NoData EXCEPT !.present = TRUE, !.size = 1]
           rest == idx.todo \ {key}
       IN  idx' = [idx EXCEPT !.byConnection[connectionKey] = connectionData,
                              !.todo = IF rest = {} THEN DOMAIN idx.data ELSE rest,
                              !.phase = IF rest = {} THEN "pass2" ELSE @]
    /\ UNCHANGED << usm, cs, worker >>

\* GroupByConnection, one iteration of the first loop, in the order the map
\* gives its keys: the entry of keyGen(key) is created if it is missing, and
\* its size is incremented.  After the last key the second loop begins.
FirstPass(key) ==
    /\ idx.phase = "pass1"
    /\ key \in idx.todo
    /\ LET connectionKey == idx.keyGen[key]
           old == idx.byConnection[connectionKey]
           connectionData == IF old.present THEN old ELSE [NoData EXCEPT !.present = TRUE]
           rest == idx.todo \ {key}
       IN  idx' = [idx EXCEPT !.byConnection[connectionKey] =
                                   [connectionData EXCEPT !.size = @ + 1],
                              !.todo = IF rest = {} THEN DOMAIN idx.data ELSE rest,
                              !.phase = IF rest = {} THEN "pass2" ELSE @]
    /\ UNCHANGED << usm, cs, worker >>

\* GroupByConnection, one iteration of the second loop: the pair is appended to
\* the Data of the entry of keyGen(key); a missing entry is logged and skipped.
\* After the last key the index is returned.
SecondPass(key) ==
    /\ idx.phase = "pass2"
    /\ key \in idx.todo
    /\ LET connectionKey == idx.keyGen[key]
           connectionData == idx.byConnection[connectionKey]
           rest == idx.todo \ {key}
       IN  idx' = [idx EXCEPT !.byConnection[connectionKey] =
                                   IF connectionData.present
                                   THEN [connectionData EXCEPT
                                            !.Data = Append(@, << key, idx.data[key] >>)]
                                   ELSE @,
                              !.todo = rest,
                              !.phase = IF rest = {} THEN "ready" ELSE @]
    /\ UNCHANGED << usm, cs, worker >>

\* What bc.lookupFn may return: nil (0), or an entry of the map.
Lookups == {0} \cup {c \in ConnectionKeys : idx.byConnection[c].present}

\* Find(c): the entry that lookupFn returns, if any, is marked as claimed.
Find(result) ==
    /\ idx.phase = "ready"
    /\ idx.finds < MaxFinds
    /\ result \in Lookups
    /\ idx' = IF result # 0
              THEN [idx EXCEPT !.byConnection[result].claimed = TRUE,
                               !.found = IF idx.closes = 0 THEN @ \cup {result} ELSE @,
                               !.finds = @ + 1]
              ELSE [idx EXCEPT !.finds = @ + 1]
    /\ UNCHANGED << usm, cs, worker >>

RECURSIVE Orphans(_, _)
\* Close, the loop over bc.data: the sum of len(value.Data) of the entries in S
\* that are not claimed.
Orphans(byConnection, S) ==
    IF S = {} THEN 0
    ELSE LET c == CHOOSE x \in S : TRUE
             value == byConnection[c]
         IN  (IF value.present /\ ~value.claimed THEN Len(value.Data) ELSE 0)
                 + Orphans(byConnection, S \ {c})

\* A Close without the sync.Once.
CloseEveryTime ==
    /\ idx.phase = "ready"
    /\ idx.closes < MaxCloses
    /\ LET total == Orphans(idx.byConnection, ConnectionKeys)
       IN  idx' = [idx EXCEPT !.once = TRUE,
                              !.reports = IF total = 0 THEN @ ELSE Append(@, total),
                              !.closes = @ + 1]
    /\ UNCHANGED << usm, cs, worker >>

\* Close: the first call counts the orphans and, unless there are none, logs
\* them and adds them to the metric; a later call does nothing.
Close ==
    /\ idx.phase = "ready"
    /\ idx.closes < MaxCloses
    /\ LET total == Orphans(idx.byConnection, ConnectionKeys)
       IN  idx' = IF idx.once THEN [idx EXCEPT !.closes = @ + 1]
                  ELSE [idx EXCEPT !.once = TRUE,
                                   !.reports = IF total = 0 THEN @ ELSE Append(@, total),
                                   !.closes = @ + 1]
    /\ UNCHANGED << usm, cs, worker >>

\* The maps that GroupByConnection may be given.
DataMaps == UNION { [S -> DataValues] : S \in SUBSET DataKeys }

IndexNext ==
    \/ \E data \in DataMaps, keyGen \in [DataKeys -> ConnectionKeys] :
          GroupByConnection(data, keyGen)
    \/ \E key \in DataKeys : FirstPass(key)
    \/ \E key \in DataKeys : SecondPass(key)
    \/ \E result \in {0} \cup ConnectionKeys : Find(result)
    \/ Close

IndexSpec == Init /\ [][IndexNext]_vars

\* The input pairs whose connection entry no Find returned before the first
\* Close.
Unclaimed == {k \in DOMAIN idx.data : idx.keyGen[k] \notin idx.found}

\* C23: nothing is reported before Close is called; from the first Close on,
\* whatever is called afterwards, what has been reported is the number of
\* input pairs whose connection entry no Find returned before that Close, once,
\* or nothing at all when that number is 0.
C23_OrphansReportedOnce ==
    /\ Len(idx.reports) <= 1
    /\ idx.closes = 0 => idx.reports = << >>
    /\ idx.closes >= 1 => (idx.once /\ idx.reports = IF Cardinality(Unclaimed) = 0 THEN << >>
                                                     ELSE << Cardinality(Unclaimed) >>)

\* C23 witness: three pairs in two connection entries; Find returned one entry
\* before the first Close and the other after it; Close was called twice and
\* the pairs of the second entry were reported once.
C23_Witness ==
    /\ idx.closes = 2
    /\ idx.finds = 2
    /\ Cardinality(idx.found) = 1
    /\ \A c \in ConnectionKeys : idx.byConnection[c].claimed
    /\ idx.reports = << 2 >>

\* How often a pair occurs in a Data slice.
Occurrences(Data, pair) == Cardinality({i \in 1 .. Len(Data) : Data[i] = pair})

RECURSIVE TotalLen(_, _)
\* The sum of the lengths of the Data slices of the entries in S.
TotalLen(byConnection, S) ==
    IF S = {} THEN 0
    ELSE LET c == CHOOSE x \in S : TRUE
         IN  Len(byConnection[c].Data) + TotalLen(byConnection, S \ {c})

\* C24: in the index that GroupByConnection returns, every pair of the input
\* map occurs exactly once in the Data of the entry of keyGen(key) and in no
\* other entry's, every element of a Data is such a pair, there is an entry
\* exactly for the connection keys of the input, the lengths of the Data
\* slices sum to len(data), and each entry's Data has the length the first pass
\* counted (and never more while the second pass runs).
C24_GroupByConnectionPartitions ==
    /\ idx.phase = "pass2"
          => \A c \in ConnectionKeys :
                Len(idx.byConnection[c].Data) <= idx.byConnection[c].size
    /\ idx.phase = "ready"
          => /\ \A k \in DOMAIN idx.data, c \in ConnectionKeys :
                   Occurrences(idx.byConnection[c].Data, << k, idx.data[k] >>)
                       = IF c = idx.keyGen[k] THEN 1 ELSE 0
             /\ \A c \in ConnectionKeys :
                   LET e == idx.byConnection[c]
                   IN  /\ \A i \in 1 .. Len(e.Data) :
                             /\ e.Data[i][1] \in DOMAIN idx.data
                             /\ e.Data[i][2] = idx.data[e.Data[i][1]]
                             /\ idx.keyGen[e.Data[i][1]] = c
                       /\ Len(e.Data) = e.size
                       /\ e.present <=> \E k \in DOMAIN idx.data : idx.keyGen[k] = c
             /\ TotalLen(idx.byConnection, ConnectionKeys) = Cardinality(DOMAIN idx.data)

\* C24 witness: an input of three pairs has been grouped into an entry with
\* two pairs and an entry with one.
C24_Witness ==
    /\ idx.phase = "ready"
    /\ DOMAIN idx.data = DataKeys
    /\ idx.data[1] # idx.data[2]
    /\ Len(idx.byConnection[1].Data) = 2
    /\ idx.byConnection[1].size = 2
    /\ Len(idx.byConnection[2].Data) = 1

====
